---- MODULE Spec2Model ----
(***************************************************************************)
(* The Anvil manager of manage_anvil.py: start_anvil, stop_anvil and the   *)
(* menu loop, over the three files they share (anvil.pid,                  *)
(* anvil_state.json, anvil.log) and the node processes they spawn.         *)
(*                                                                         *)
(* Each supervisor invocation (a terminal running the script) walks the    *)
(* statements of the function it called, one external effect per step;     *)
(* the node processes run concurrently and may exit at any time.           *)
(***************************************************************************)
EXTENDS Integers, Sequences, FiniteSets, TLC

\* ---------------------------------------------------------------- bounds
MaxPid == 3

\* the pids the system hands out: a window with one- and two-digit pids
Pids == 9..(8 + MaxPid)
Sups == {"t1", "t2"}
Blobs == {"b1", "b2"}

VARIABLES
    terminals,  \* the supervisor invocations that exist (one per terminal)
    pidFile,    \* anvil.pid: [exists, text]; text is a sequence of digits
    stateFile,  \* anvil_state.json: "absent", "empty", "partial" or a blob
    logFile,    \* anvil.log: [exists, writers]; the nodes whose output it holds
    alive,      \* pids of the node processes that are running
    pc,         \* per supervisor: the statement it is at
    pid,        \* per supervisor: stop_anvil's local pid
    command,    \* per supervisor: start_anvil's command ("fresh" or "load")
    child,      \* per supervisor: process.pid of the node this start spawned
    op,         \* per supervisor: the menu choice being served
    result,     \* per supervisor: what the finished call reported
    prev,       \* per supervisor: the call served before this one, and its report
    pre,        \* per supervisor: the files and processes when the call began
    dumped,     \* per supervisor: how this stop's dump ended
    killed,     \* per supervisor: the pids this stop passed to os.kill
    sig,        \* per supervisor: how this stop's os.kill ended
    trace       \* per supervisor: the external steps of the call, in order

vars == <<terminals, pidFile, stateFile, logFile, alive, pc, pid, command,
          child, op, result, prev, pre, dumped, killed, sig, trace>>

files == <<pidFile, stateFile, logFile>>
locals == <<pid, command, child>>
hist == <<op, prev, pre, dumped, killed, sig, trace>>

\* ------------------------------------------------------- text of a pid
\* str(process.pid): the decimal digits of n, most significant first.
RECURSIVE StrOfPid(_)
StrOfPid(n) == IF n < 10 THEN <<n>> ELSE StrOfPid(n \div 10) \o <<n % 10>>

\* int(f.read()) raises ValueError on a text that holds no digits.
IsIntText(t) == Len(t) > 0 /\ \A i \in 1..Len(t) : t[i] \in 0..9

RECURSIVE IntOfText(_)
IntOfText(t) ==
    IF Len(t) = 0 THEN 0
    ELSE 10 * IntOfText(SubSeq(t, 1, Len(t) - 1)) + t[Len(t)]

\* ------------------------------------------------------------ the files
NoFile == [exists |-> FALSE, text |-> <<>>]
NoLog == [exists |-> FALSE, writers |-> {}]

\* os.path.exists(ANVIL_PID_FILE)
PidFileExists == pidFile.exists

\* os.path.exists(ANVIL_STATE_FILE)
StateFileExists(sf) == sf # "absent"

\* status = "Running" if os.path.exists(ANVIL_PID_FILE) else "Stopped"
Status == IF PidFileExists THEN "Running" ELSE "Stopped"

Snapshot == [pidFile |-> pidFile, stateFile |-> stateFile,
             logFile |-> logFile, alive |-> alive]

TypeOK ==
    /\ terminals \subseteq Sups
    /\ pidFile.exists \in BOOLEAN
    /\ stateFile \in {"absent", "empty", "partial"} \cup Blobs
    /\ logFile.exists \in BOOLEAN /\ logFile.writers \subseteq Pids
    /\ alive \subseteq Pids
    /\ \A s \in Sups : pid[s] \in Pids \cup {0} /\ child[s] \in Pids \cup {0}

Init ==
    /\ terminals = {"t1"}
    /\ pidFile = NoFile
    /\ stateFile = "absent"
    /\ logFile = NoLog
    /\ alive = {}
    /\ pc = [s \in Sups |-> IF s \in terminals THEN "menu" ELSE "off"]
    /\ pid = [s \in Sups |-> 0]
    /\ command = [s \in Sups |-> "none"]
    /\ child = [s \in Sups |-> 0]
    /\ op = [s \in Sups |-> "none"]
    /\ result = [s \in Sups |-> "none"]
    /\ prev = [s \in Sups |-> [op |-> "none", result |-> "none"]]
    /\ pre = [s \in Sups |-> Snapshot]
    /\ dumped = [s \in Sups |-> "none"]
    /\ killed = [s \in Sups |-> {}]
    /\ sig = [s \in Sups |-> "none"]
    /\ trace = [s \in Sups |-> <<>>]

\* ------------------------------------------------------------- helpers
At(s, l) == s \in terminals /\ pc[s] = l
Goto(s, l) == pc' = [pc EXCEPT ![s] = l]
\* the call returns to main_menu's loop having printed r
Return(s, r) == pc' = [pc EXCEPT ![s] = "menu"] /\ result' = [result EXCEPT ![s] = r]
Log(s, e) == trace' = [trace EXCEPT ![s] = Append(@, e)]

\* the menu dispatches a choice: the call's bookkeeping starts afresh
Begin(s, o) ==
    /\ op' = [op EXCEPT ![s] = o]
    /\ prev' = [prev EXCEPT ![s] = [op |-> op[s], result |-> result[s]]]
    /\ pre' = [pre EXCEPT ![s] = Snapshot]
    /\ dumped' = [dumped EXCEPT ![s] = "none"]
    /\ killed' = [killed EXCEPT ![s] = {}]
    /\ sig' = [sig EXCEPT ![s] = "none"]
    /\ trace' = [trace EXCEPT ![s] = <<>>]
    /\ pid' = [pid EXCEPT ![s] = 0]
    /\ command' = [command EXCEPT ![s] = "none"]
    /\ child' = [child EXCEPT ![s] = 0]

\* ---------------------------------------------------------- start_anvil
\* a start_anvil that lost its line-19 guard
StartNeverRefused == FALSE

\* l.19: if os.path.exists(ANVIL_PID_FILE): ... return
StartRefused == PidFileExists

\* a launch decision that looks into the file instead of at its presence
LaunchCommandByContent(sf) == IF sf = "b1" THEN "load" ELSE "fresh"

\* l.23-29: the command gets --load-state iff the state file exists
LaunchCommand(sf) == IF StateFileExists(sf) THEN "load" ELSE "fresh"

\* a log opened with 'w': created, or emptied of what it held
OpenLogTruncating(lf) == [exists |-> TRUE, writers |-> {}]

\* l.35: open(ANVIL_LOG_FILE, 'a') creates the file and keeps what it holds
OpenLog(lf) == [exists |-> TRUE, writers |-> lf.writers]

\* a pid file that is opened and closed with nothing written
WritePidNothing(p) == [exists |-> TRUE, text |-> <<>>]

\* l.56-57: open(ANVIL_PID_FILE, "w") and f.write(str(process.pid))
WritePid(p) == [exists |-> TRUE, text |-> StrOfPid(p)]

\* a start_anvil that had opened the pid file before the launch raised
PidFileLeftBehind(pf) == [exists |-> TRUE, text |-> <<>>]

\* l.65-69: what the except clauses leave of the pid file when the launch
\* raised before line 56 was reached
PidFileAfterLaunchError(pf) == pf

\* the menu's 'Start Anvil' and l.19-21
StartAnvil ==
    \E s \in Sups :
        /\ At(s, "menu")
        /\ Begin(s, "start")
        /\ IF StartRefused
              THEN Return(s, "AlreadyRunning")
              ELSE Goto(s, "start_args") /\ result' = [result EXCEPT ![s] = "none"]
        /\ UNCHANGED <<terminals, files, alive>>

\* l.23-29
StartArgs ==
    \E s \in Sups :
        /\ At(s, "start_args")
        /\ command' = [command EXCEPT ![s] = LaunchCommand(stateFile)]
        /\ Goto(s, "start_log")
        /\ UNCHANGED <<terminals, files, alive, pid, child, result, hist>>

\* l.35; an open that raises lands in l.68-69
StartOpenLog ==
    \E s \in Sups, ok \in BOOLEAN :
        /\ At(s, "start_log")
        /\ IF ok
              THEN /\ logFile' = OpenLog(logFile)
                   /\ Goto(s, "start_spawn")
                   /\ UNCHANGED <<pidFile, result>>
              ELSE /\ pidFile' = PidFileAfterLaunchError(pidFile)
                   /\ Return(s, "StartError")
                   /\ UNCHANGED logFile
        /\ Log(s, "open_log")
        /\ UNCHANGED <<terminals, stateFile, alive, locals, op, prev, pre, dumped, killed, sig>>

\* l.48-53: Popen starts a node with an unused pid, whose output goes to the
\* log; FileNotFoundError lands in l.65-67, any other error in l.68-69
StartSpawn ==
    \E s \in Sups, how \in {"ok", "not_found", "error"} :
        /\ At(s, "start_spawn")
        /\ IF how = "ok"
              THEN \E p \in Pids \ alive :
                      /\ alive' = alive \cup {p}
                      /\ child' = [child EXCEPT ![s] = p]
                      /\ logFile' = [logFile EXCEPT !.writers = @ \cup {p}]
                      /\ Goto(s, "start_pid")
                      /\ UNCHANGED <<pidFile, result>>
              ELSE /\ pidFile' = PidFileAfterLaunchError(pidFile)
                   /\ Return(s, IF how = "not_found" THEN "BinaryNotFound" ELSE "StartError")
                   /\ UNCHANGED <<alive, child, logFile>>
        /\ Log(s, "spawn")
        /\ UNCHANGED <<terminals, stateFile, pid, command, op, prev, pre, dumped, killed, sig>>

\* l.56-59: the open may raise (file untouched), or the write after it
\* (file created or truncated, nothing in it); both land in l.68-69
StartWritePid ==
    \E s \in Sups, how \in {"ok", "open_error", "write_error"} :
        /\ At(s, "start_pid")
        /\ pidFile' = CASE how = "ok" -> WritePid(child[s])
                        [] how = "open_error" -> pidFile
                        [] how = "write_error" -> [exists |-> TRUE, text |-> <<>>]
        /\ Return(s, IF how = "ok" THEN "Started" ELSE "StartError")
        /\ Log(s, "write_pid")
        /\ UNCHANGED <<terminals, stateFile, logFile, alive, locals, op, prev, pre, dumped, killed, sig>>

\* ----------------------------------------------------------- stop_anvil
\* a stop_anvil that lost its line-75 guard
StopNeverRefused == FALSE

\* l.75: if not os.path.exists(ANVIL_PID_FILE): ... return
StopRefused == ~PidFileExists

\* l.87: open(ANVIL_STATE_FILE, "w") creates the file or empties it
OpenState(sf) == "empty"

\* a stop_anvil that deletes the state file when the dump failed
DumpLeavesOrDeletes(sf, how) == IF how \in Blobs THEN {how} ELSE {"absent"}

\* l.88: the state file once cast has run. A dump of blob b leaves b; a run
\* that failed (CalledProcessError) leaves whatever cast had printed, nothing
\* or part of a blob; a cast that never ran (FileNotFoundError) leaves sf.
DumpLeaves(sf, how) ==
    CASE how \in Blobs -> {how}
      [] how = "rpc_error" -> {"empty", "partial"}
      [] OTHER -> {sf}

\* l.97-100: what stop_anvil prints when the dump raised
DumpFailure(how) == IF how = "cast_missing" THEN "CastNotFound" ELSE "DumpFailed"

\* l.92: os.kill(pid, SIGTERM) reaches a running process unless the caller
\* may not signal it (PermissionError); no such process is ProcessLookupError
KillOutcomes(p) == IF p \in alive THEN {"ok", "denied"} ELSE {"absent"}

\* an os.remove that leaves the file
RemovePidSkipped(pf) == pf

\* l.94, l.103: os.remove(ANVIL_PID_FILE)
RemovePid(pf) == NoFile

\* the menu's 'Stop Anvil' and l.75-77
StopAnvil ==
    \E s \in Sups :
        /\ At(s, "menu")
        /\ Begin(s, "stop")
        /\ IF StopRefused
              THEN Return(s, "NotRunning")
              ELSE Goto(s, "stop_read") /\ result' = [result EXCEPT ![s] = "none"]
        /\ UNCHANGED <<terminals, files, alive>>

\* a stop_anvil that signals the process first and dumps afterwards
StopReadThenKill ==
    \E s \in Sups :
        /\ At(s, "stop_read")
        /\ IF pidFile.exists /\ IsIntText(pidFile.text)
              THEN /\ pid' = [pid EXCEPT ![s] = IntOfText(pidFile.text)]
                   /\ Goto(s, "stop_kill")
                   /\ UNCHANGED result
              ELSE /\ pc' = [pc EXCEPT ![s] = "off"]
                   /\ result' = [result EXCEPT ![s] = "Crash"]
                   /\ UNCHANGED pid
        /\ Log(s, "read_pid")
        /\ UNCHANGED <<terminals, files, alive, command, child, op, prev, pre, dumped, killed, sig>>

\* l.79-80, outside the try: an error here (the file is gone, or its text
\* is no integer) is caught nowhere and ends the script
StopRead ==
    \E s \in Sups :
        /\ At(s, "stop_read")
        /\ IF pidFile.exists /\ IsIntText(pidFile.text)
              THEN /\ pid' = [pid EXCEPT ![s] = IntOfText(pidFile.text)]
                   /\ Goto(s, "stop_open")
                   /\ UNCHANGED result
              ELSE /\ pc' = [pc EXCEPT ![s] = "off"]
                   /\ result' = [result EXCEPT ![s] = "Crash"]
                   /\ UNCHANGED pid
        /\ Log(s, "read_pid")
        /\ UNCHANGED <<terminals, files, alive, command, child, op, prev, pre, dumped, killed, sig>>

\* l.87: the state file is opened for writing before cast is run
StopOpenState ==
    \E s \in Sups :
        /\ At(s, "stop_open")
        /\ stateFile' = OpenState(stateFile)
        /\ Goto(s, "stop_dump")
        /\ Log(s, "open_state")
        /\ UNCHANGED <<terminals, pidFile, logFile, alive, locals, result, op, prev, pre,
                       dumped, killed, sig>>

\* l.88: subprocess.run(command_dump, ...) is given no timeout: it returns
\* when cast exits, and waits for as long as cast waits for the node
DumpOutcomes == Blobs \cup {"rpc_error", "cast_missing", "no_answer"}

\* l.88-89 and l.97-100: cast prints the node's state into the open file
StopDump ==
    \E s \in Sups, how \in DumpOutcomes :
        /\ At(s, "stop_dump")
        /\ stateFile' \in DumpLeaves(stateFile, how)
        /\ dumped' = [dumped EXCEPT ![s] = how]
        /\ CASE how \in Blobs -> Goto(s, "stop_kill") /\ UNCHANGED result
             [] how = "no_answer" -> Goto(s, "stop_wait") /\ UNCHANGED result
             [] OTHER -> Return(s, DumpFailure(how))
        /\ Log(s, "dump")
        /\ UNCHANGED <<terminals, pidFile, logFile, alive, locals, op, prev, pre, killed, sig>>

\* l.91-92 and l.101-105. A signalled node exits in its own time (NodeExits).
\* os.remove in the ProcessLookupError handler raises, uncaught, if the file
\* is gone.
StopKill ==
    \E s \in Sups :
      \E how \in KillOutcomes(pid[s]) :
        /\ At(s, "stop_kill")
        /\ killed' = [killed EXCEPT ![s] = @ \cup {pid[s]}]
        /\ sig' = [sig EXCEPT ![s] = how]
        /\ CASE how = "ok" ->
                  Goto(s, "stop_remove") /\ UNCHANGED <<result, pidFile>>
             [] how = "denied" ->
                  Return(s, "StopError") /\ UNCHANGED pidFile
             [] how = "absent" ->
                  IF pidFile.exists
                     THEN pidFile' = RemovePid(pidFile) /\ Return(s, "AlreadyStopped")
                     ELSE /\ pc' = [pc EXCEPT ![s] = "off"]
                          /\ result' = [result EXCEPT ![s] = "Crash"]
                          /\ UNCHANGED pidFile
        /\ Log(s, "kill")
        /\ UNCHANGED <<terminals, stateFile, logFile, alive, locals, op, prev, pre, dumped>>

\* l.93-95; os.remove of a file that is gone raises FileNotFoundError,
\* which l.97-98 report as a missing cast
StopRemove ==
    \E s \in Sups :
        /\ At(s, "stop_remove")
        /\ IF pidFile.exists
              THEN pidFile' = RemovePid(pidFile) /\ Return(s, "Stopped")
              ELSE UNCHANGED pidFile /\ Return(s, "CastNotFound")
        /\ Log(s, "remove")
        /\ UNCHANGED <<terminals, stateFile, logFile, alive, locals, op, prev, pre, dumped, killed, sig>>

\* ------------------------------------------------------ the environment
\* a node process ends: on the signal it was sent, or on its own
NodeExits ==
    \E p \in alive :
        /\ alive' = alive \ {p}
        /\ UNCHANGED <<terminals, files, pc, locals, result, hist>>

\* ------------------------------------------------------------ main_menu
\* an Exit that takes the nodes down with the script (a child that was not
\* detached from the script's session)
ExitEndingNodes ==
    \E s \in Sups :
        /\ At(s, "menu")
        /\ Goto(s, "off")
        /\ alive' = {}
        /\ UNCHANGED <<terminals, files, locals, result, hist>>

\* l.164-167: 'Exit' leaves the loop and the script ends
Exit ==
    \E s \in Sups :
        /\ At(s, "menu")
        /\ Goto(s, "off")
        /\ UNCHANGED <<terminals, files, alive, locals, result, hist>>

\* l.151-170: Ctrl+C while stop_anvil waits for cast raises
\* KeyboardInterrupt, which no clause of stop_anvil catches (it is no
\* Exception); main_menu's l.169-170 catch it and leave the loop
Interrupt ==
    \E s \in Sups :
        /\ At(s, "stop_wait")
        /\ Goto(s, "off")
        /\ result' = [result EXCEPT ![s] = "Interrupted"]
        /\ UNCHANGED <<terminals, files, alive, locals, hist>>

\* l.180-182: the script is run again in a terminal
Launch ==
    \E s \in Sups :
        /\ At(s, "off")
        /\ Goto(s, "menu")
        /\ UNCHANGED <<terminals, files, alive, locals, result, hist>>

Next ==
    \/ StartAnvil \/ StartArgs \/ StartOpenLog \/ StartSpawn \/ StartWritePid
    \/ StopAnvil \/ StopRead \/ StopOpenState \/ StopDump \/ StopKill \/ StopRemove
    \/ NodeExits \/ Exit \/ Interrupt \/ Launch

\* one operator, one terminal
Spec == Init /\ [][Next]_vars

\* the statements of a call that the interpreter runs on its own; what the
\* operator chooses (a menu entry, Ctrl+C, running the script) and when a
\* node exits are not the program's to schedule
Steps ==
    \/ StartArgs \/ StartOpenLog \/ StartSpawn \/ StartWritePid
    \/ StopRead \/ StopOpenState \/ StopDump \/ StopKill \/ StopRemove

\* one operator, one terminal, and a call under way keeps running
SpecFair == Spec /\ WF_vars(Steps)

\* two terminals run the script on the same files
InitConc ==
    /\ terminals = Sups
    /\ pidFile = NoFile
    /\ stateFile = "absent"
    /\ logFile = NoLog
    /\ alive = {}
    /\ pc = [s \in Sups |-> "menu"]
    /\ pid = [s \in Sups |-> 0]
    /\ command = [s \in Sups |-> "none"]
    /\ child = [s \in Sups |-> 0]
    /\ op = [s \in Sups |-> "none"]
    /\ result = [s \in Sups |-> "none"]
    /\ prev = [s \in Sups |-> [op |-> "none", result |-> "none"]]
    /\ pre = [s \in Sups |-> Snapshot]
    /\ dumped = [s \in Sups |-> "none"]
    /\ killed = [s \in Sups |-> {}]
    /\ sig = [s \in Sups |-> "none"]
    /\ trace = [s \in Sups |-> <<>>]

\* both terminals choose 'Start Anvil', any number of times, and the nodes
\* they spawn keep running
NextConc ==
    \/ StartAnvil \/ StartArgs \/ StartOpenLog \/ StartSpawn \/ StartWritePid

SpecConc == InitConc /\ [][NextConc]_vars

\* ================================================================ claims
\* the call of kind o that supervisor s was serving has ended
Returned(s, o) == s \in terminals /\ op[s] = o /\ pc[s] \in {"menu", "off"}

\* the pid recorded in the pid file when the call began
RecordedPid(s) == IntOfText(pre[s].pidFile.text)

\* the call began with a readable ProcessRecord
HadRecord(s) == pre[s].pidFile.exists /\ IsIntText(pre[s].pidFile.text)

DumpFailed(s) == dumped[s] \in {"rpc_error", "cast_missing"}

FilesAsBefore(s) ==
    /\ pidFile = pre[s].pidFile
    /\ stateFile = pre[s].stateFile
    /\ logFile = pre[s].logFile

\* C1 (as claimed): a stop whose dump step failed has still signalled the
\* recorded pid and removed the pid file when it returns.
C1_DumpFailureDoesNotBlockStop ==
    \A s \in Sups :
        (Returned(s, "stop") /\ HadRecord(s) /\ DumpFailed(s))
            => (RecordedPid(s) \in killed[s] /\ ~pidFile.exists)

\* C2 (as claimed): a stop that found a record whose pid was no live process
\* reports 'already stopped' and leaves no pid file, so status reads Stopped.
C2_StaleRecordReconciled ==
    \A s \in Sups :
        (Returned(s, "stop") /\ HadRecord(s) /\ RecordedPid(s) \notin pre[s].alive)
            => (result[s] = "AlreadyStopped" /\ ~pidFile.exists /\ Status = "Stopped")

\* C3 (as claimed): no pid file is left when a stop has returned, and a stop
\* that follows a stop reports nothing worse than NotRunning.
C3_IdempotentStop ==
    \A s \in Sups :
        Returned(s, "stop")
            => /\ ~pidFile.exists
               /\ prev[s].op = "stop"
                    => result[s] \in {"NotRunning", "Stopped", "AlreadyStopped"}

\* C4 (as claimed): a stop whose dump failed leaves a previously valid
\* snapshot file with the content it had.
C4_NoPartialSnapshot ==
    \A s \in Sups :
        (Returned(s, "stop") /\ DumpFailed(s) /\ pre[s].stateFile \in Blobs)
            => stateFile = pre[s].stateFile

\* C5: a start called while the pid file is present is refused as
\* AlreadyRunning at once: it takes no step, spawns nothing and leaves the
\* pid file, the state file and the log file as they were.
C5_StrictStartRefuses ==
    \A s \in Sups :
        (s \in terminals /\ op[s] = "start" /\ pre[s].pidFile.exists)
            => /\ pc[s] \in {"menu", "off"}
               /\ result[s] = "AlreadyRunning"
               /\ child[s] = 0 /\ trace[s] = <<>>
               /\ alive \subseteq pre[s].alive
               /\ FilesAsBefore(s)

C5_Witness ==
    \E s \in Sups :
        /\ Returned(s, "start") /\ pre[s].pidFile.exists
        /\ result[s] = "AlreadyRunning" /\ alive # {} /\ stateFile \in Blobs

\* C6: a start called with no pid file whose launch failed (no node was
\* spawned: the binary is missing, or the log open or Popen raised) leaves no
\* pid file, and status reads Stopped.
C6_SpawnFailureLeavesNoRecord ==
    \A s \in Sups :
        (Returned(s, "start") /\ ~pre[s].pidFile.exists /\ child[s] = 0)
            => /\ result[s] \in {"BinaryNotFound", "StartError"}
               /\ ~pidFile.exists
               /\ Status = "Stopped"

C6_Witness ==
    \E s \in Sups :
        /\ Returned(s, "start") /\ ~pre[s].pidFile.exists /\ child[s] = 0
        /\ result[s] = "BinaryNotFound" /\ trace[s] = <<"open_log", "spawn">>

\* C7: a start that spawned a node passed --load-state iff the state file
\* existed when the start began, whatever the file holds; otherwise the
\* command is the fresh-chain one.
C7_LaunchModeDecision ==
    \A s \in Sups :
        (s \in terminals /\ op[s] = "start" /\ child[s] # 0)
            => /\ command[s] \in {"load", "fresh"}
               /\ command[s] = "load" <=> StateFileExists(pre[s].stateFile)

C7_Witness ==
    \E s \in Sups :
        /\ op[s] = "start" /\ child[s] # 0
        /\ command[s] = "load" /\ pre[s].stateFile = "b2"

C9_StopWithoutRecordIsNoOp ==
    \A s \in Sups :
        (s \in terminals /\ op[s] = "stop" /\ ~pre[s].pidFile.exists)
            => /\ pc[s] \in {"menu", "off"}
               /\ result[s] = "NotRunning"
               /\ dumped[s] = "none" /\ killed[s] = {} /\ sig[s] = "none"
               /\ trace[s] = <<>>
               /\ FilesAsBefore(s)

C9_Witness ==
    \E s \in Sups :
        /\ Returned(s, "stop") /\ ~pre[s].pidFile.exists
        /\ result[s] = "NotRunning" /\ stateFile \in Blobs /\ alive # {}

\* C10 (as claimed): a stop whose os.kill was refused (permission denied)
\* reports StopFailed and has still removed the pid file when it returns.
C10_SignalFailureClearsRecord ==
    \A s \in Sups :
        (Returned(s, "stop") /\ sig[s] = "denied")
            => (result[s] = "StopError" /\ ~pidFile.exists)

InCall(s) == s \in terminals /\ pc[s] \notin {"menu", "off"}

\* C12 (as claimed): every stop that is called returns in the end, also
\* when the node never answers the dump call.
C12_StopAlwaysTerminates ==
    \A s \in Sups : (op[s] = "stop" /\ InCall(s)) ~> ~InCall(s)

\* C13 (as claimed): no start and no stop ends in an error that nothing
\* catches, whatever the pid file holds when it is read.
C13_NoOperationCrashes ==
    \A s \in Sups : result[s] # "Crash"

\* C14: no step deletes the state file once it exists, and from the moment a
\* start is called until the next call the state file is what it was when
\* the start was called (refused, failed or successful alike).
C14_SnapshotNeverDeleted ==
    [][ /\ StateFileExists(stateFile) => StateFileExists(stateFile')
        /\ \A s \in Sups :
              (s \in terminals /\ op'[s] = "start") => stateFile' = pre'[s].stateFile
      ]_vars

C14_Witness ==
    \E s \in Sups :
        /\ Returned(s, "start") /\ result[s] = "Started"
        /\ prev[s].op = "stop" /\ prev[s].result = "Stopped"
        /\ stateFile \in Blobs /\ stateFile = pre[s].stateFile

IsPrefix(a, b) == Len(a) <= Len(b) /\ a = SubSeq(b, 1, Len(a))

\* C15: in every stop, the steps come in the order read pid, open state
\* file, dump, os.kill, remove; os.kill is called only once the dump attempt
\* has ended and only with the pid read from the pid file as the stop began;
\* and the pid file is removed only once os.kill has been called.
C15_StopStepOrdering ==
    \A s \in Sups :
        (s \in terminals /\ op[s] = "stop")
            => /\ IsPrefix(trace[s], <<"read_pid", "open_state", "dump", "kill", "remove">>)
               /\ killed[s] # {}
                    => /\ dumped[s] \notin {"none", "no_answer"}
                       /\ HadRecord(s)
                       /\ killed[s] = {RecordedPid(s)}
               /\ pidFile # pre[s].pidFile
                    => (killed[s] # {} /\ sig[s] \in {"ok", "absent"})

C15_Witness ==
    \E s \in Sups :
        /\ Returned(s, "stop") /\ result[s] = "Stopped"
        /\ trace[s] = <<"read_pid", "open_state", "dump", "kill", "remove">>
        /\ killed[s] = {RecordedPid(s)} /\ ~pidFile.exists

\* C16: a step by which a script ends (Exit, or any other way out) and a
\* step by which it is run again send no signal, end no node and leave the
\* pid file, and so the status, as they were.
C16_ExitLeavesNodeTracked ==
    [][ \A s \in Sups :
          (pc[s] # pc'[s] /\ (pc[s] = "off" \/ pc'[s] = "off"))
              => /\ pidFile' = pidFile
                 /\ alive' = alive
                 /\ killed' = killed /\ sig' = sig
      ]_vars

C16_Witness ==
    \E s \in Sups :
        /\ s \in terminals /\ pc[s] = "off"
        /\ op[s] = "start" /\ result[s] = "Started"
        /\ child[s] \in alive
        /\ Status = "Running" /\ IntOfText(pidFile.text) = child[s]

\* start_anvil has come to the Popen call
ReachedSpawn(s) ==
    /\ s \in terminals /\ op[s] = "start"
    /\ \E i \in 1..Len(trace[s]) : trace[s][i] = "open_log"
    /\ ~(Returned(s, "start") /\ trace[s] = <<"open_log">>)

\* C17 (as claimed): once a start has come to the spawn step the log file
\* exists and holds nothing from earlier node lifetimes.
C17_LogTruncatedAtStart ==
    \A s \in Sups :
        ReachedSpawn(s) => (logFile.exists /\ logFile.writers \subseteq {child[s]})

\* C17 (amended): once a start has come to the spawn step the log file
\* exists and holds all it held before, followed by the output of the node
\* this start spawned, if any.
C17_LogAppendedAtStart ==
    \A s \in Sups :
        ReachedSpawn(s)
            => /\ logFile.exists
               /\ logFile.writers = pre[s].logFile.writers \cup ({child[s]} \ {0})

C17_Witness ==
    \E s \in Sups :
        /\ ReachedSpawn(s) /\ result[s] = "Started"
        /\ pre[s].logFile.exists /\ pre[s].logFile.writers # {}
        /\ child[s] \notin pre[s].logFile.writers

\* C18: with two terminals starting at once, two starts that both report
\* success have both passed the pid-file check and have spawned two nodes;
\* the pid file holds the pid of exactly one of them and the other node runs
\* with its pid recorded nowhere. The witness is such an interleaving.
C18_ConcurrentStartsRace ==
    \A s, t \in Sups :
        (s # t /\ Returned(s, "start") /\ Returned(t, "start")
            /\ result[s] = "Started" /\ result[t] = "Started")
            => /\ ~pre[s].pidFile.exists /\ ~pre[t].pidFile.exists
               /\ child[s] # child[t] /\ {child[s], child[t]} \subseteq alive
               /\ pidFile.exists /\ IsIntText(pidFile.text)
               /\ IntOfText(pidFile.text) \in {child[s], child[t]}
               /\ \E u \in {s, t} : child[u] \in alive /\ IntOfText(pidFile.text) # child[u]

C18_Witness ==
    /\ terminals = Sups
    /\ \A s \in Sups : Returned(s, "start") /\ result[s] = "Started" /\ pre[s].alive = {}
    /\ Cardinality(alive) = 2
    /\ pidFile.text = StrOfPid(child["t2"])
    /\ child["t1"] \in alive /\ child["t1"] # child["t2"]

\* C19: with one operator, a state file that is empty or partial (left by a
\* failed dump) is never there without the pid file, so every start that
\* spawns a node with --load-state finds in the state file the whole output
\* of a dump that succeeded.
C19_LoadStateNeverCorrupted ==
    /\ stateFile \in {"empty", "partial"} => pidFile.exists
    /\ \A s \in Sups :
        (s \in terminals /\ op[s] = "start" /\ child[s] # 0 /\ command[s] = "load")
            => (pre[s].stateFile \in Blobs /\ stateFile = pre[s].stateFile)

C19_Witness ==
    \E s \in Sups :
        /\ op[s] = "start" /\ child[s] # 0 /\ command[s] = "load"
        /\ prev[s].op = "stop" /\ prev[s].result = "AlreadyStopped"
        /\ stateFile = "b1"

\* C20 (as claimed): with one operator and no call under way, at most one
\* node is running, and a node that is running has its pid in the pid file.
C20_NoUntrackedOrphan ==
    (\A s \in Sups : ~InCall(s))
        => /\ Cardinality(alive) <= 1
           /\ \A p \in alive :
                pidFile.exists /\ IsIntText(pidFile.text) /\ IntOfText(pidFile.text) = p

====
